---- MODULE Spec2Model ----
(***************************************************************************)
(* Model of collectsphere.py: a collectd python plugin that polls one or   *)
(* more vCenter Servers for host and VM performance counters.              *)
(*                                                                         *)
(* Strings of the program are sequences of one-character strings, so that  *)
(* the regular expressions, str.replace, str.split and len() of the source *)
(* are computed and not assumed.                                           *)
(***************************************************************************)
EXTENDS Integers, Sequences, FiniteSets, TLC

VARIABLES
    CONFIGS,         \* the list CONFIGS
    ENVIRONMENT,     \* the dictionary ENVIRONMENT
    keyOrder,        \* the order in which ENVIRONMENT.keys() yields its keys
    phase,           \* "configure" until init_callback has run, then "read"
    tick,            \* number of read_callback invocations so far
    cp,              \* the control plane as the last callback met it
    leakedSessions,  \* sessions the last callback opened and left open
    perfLevel,       \* level of historicalInterval[0], per endpoint
    envSource,       \* history: index in CONFIGS each environment was built from
    calls,           \* colletMetricsForEntities invocations of the last tick
    queries,         \* QueryPerf invocations of the last tick
    counterLookups,  \* QueryPerfCounter invocations of the last tick
    dispatched,      \* samples dispatched to collectd in the last tick
    aborted,         \* an exception left the last callback
    polled,          \* names whose environment the last tick walked to the end
    strTrace         \* calls of truncate run rule by rule: per call, the value of
                     \* its variable str on entry and after each rule

vars == <<CONFIGS, ENVIRONMENT, keyOrder, phase, tick, cp, leakedSessions, perfLevel,
          envSource, calls, queries, counterLookups, dispatched, aborted, polled,
          strTrace>>

(***************************************************************************)
(* Bounds of the model.                                                    *)
(***************************************************************************)
MaxConfigs == 2
MaxTicks == 2
\* successive calls of truncate on its own result (one per sample iteration)
MaxCalls == 2

(***************************************************************************)
(* Character classes and string helpers (python str / re semantics).       *)
(***************************************************************************)
UpperChars == <<"A","B","C","D","E","F","G","H","I","J","K","L","M",
                "N","O","P","Q","R","S","T","U","V","W","X","Y","Z">>
LowerChars == <<"a","b","c","d","e","f","g","h","i","j","k","l","m",
                "n","o","p","q","r","s","t","u","v","w","x","y","z">>
DigitChars == {"0","1","2","3","4","5","6","7","8","9"}
UpperSet == {UpperChars[i] : i \in 1..26}
LowerSet == {LowerChars[i] : i \in 1..26}
LetterSet == UpperSet \cup LowerSet
\* [0-9a-f] under re.IGNORECASE
HexSet == DigitChars \cup {"a","b","c","d","e","f","A","B","C","D","E","F"}
\* \s of re and the whitespace of str.strip(): space, tab, line feed,
\* carriage return, form feed and vertical tab (the last written literally)
SpaceSet == {" ", "\t", "\n", "\r", "\f", ""}
\* [a-zA-Z0-9_\-]
LabelSet == LetterSet \cup DigitChars \cup {"_", "-"}

LowerChar(c) ==
    IF c \in UpperSet
    THEN LowerChars[CHOOSE i \in 1..26 : UpperChars[i] = c]
    ELSE c

\* str.lower()
Lower(s) == [i \in 1..Len(s) |-> LowerChar(s[i])]

\* s[a-1:b] of python, 1-based inclusive, empty when a > b
Slice(s, a, b) == IF a > b THEN <<>> ELSE SubSeq(s, a, b)

\* s[:n]
Prefix(s, n) == Slice(s, 1, IF n < Len(s) THEN n ELSE Len(s))

\* s[-n:]
Suffix(s, n) == IF Len(s) <= n THEN s ELSE SubSeq(s, Len(s) - n + 1, Len(s))

\* s.startswith(p)
StartsWith(s, p) == Len(s) >= Len(p) /\ SubSeq(s, 1, Len(p)) = p

\* p occurs in s at position i
OccursAt(s, p, i) ==
    /\ i + Len(p) - 1 <= Len(s)
    /\ \A j \in 1..Len(p) : s[i + j - 1] = p[j]

RECURSIVE ReplaceFrom(_, _, _, _)
ReplaceFrom(s, old, new, i) ==
    IF i > Len(s) THEN <<>>
    ELSE IF OccursAt(s, old, i)
         THEN new \o ReplaceFrom(s, old, new, i + Len(old))
         ELSE <<s[i]>> \o ReplaceFrom(s, old, new, i + 1)

\* str.replace(old, new) for non-empty old: all non-overlapping occurrences,
\* left to right
Replace(s, old, new) ==
    IF Len(old) = 1 /\ Len(new) = 1
    THEN [i \in 1..Len(s) |-> IF s[i] = old[1] THEN new[1] ELSE s[i]]
    ELSE IF \A i \in 1..(Len(s) - Len(old) + 1) : ~OccursAt(s, old, i) THEN s
    ELSE ReplaceFrom(s, old, new, 1)

RECURSIVE SplitFrom(_, _, _, _)
SplitFrom(s, sep, i, cur) ==
    IF i > Len(s) THEN <<cur>>
    ELSE IF s[i] = sep
         THEN <<cur>> \o SplitFrom(s, sep, i + 1, <<>>)
         ELSE SplitFrom(s, sep, i + 1, Append(cur, s[i]))

\* str.split(sep) for a one-character separator
Split(s, sep) == SplitFrom(s, sep, 1, <<>>)

RECURSIVE LStrip(_)
LStrip(s) == IF Len(s) > 0 /\ s[1] \in SpaceSet THEN LStrip(Tail(s)) ELSE s

RECURSIVE RStrip(_)
RStrip(s) ==
    IF Len(s) > 0 /\ s[Len(s)] \in SpaceSet
    THEN RStrip(SubSeq(s, 1, Len(s) - 1))
    ELSE s

\* str.strip()
Strip(s) == RStrip(LStrip(s))

\* every character of s[a..b] is in class
AllIn(s, a, b, class) == \A i \in a..b : s[i] \in class

\* elements of a sequence
Range(f) == {f[i] : i \in DOMAIN f}

(***************************************************************************)
(* HELPER FUNCTIONS of the source: truncate, FQDNtruncate, Objtruncate.    *)
(* Strings of the model contain no newline, so '.' of a pattern matches    *)
(* every character and '$' is the end of the string.                       *)
(***************************************************************************)
Str_naa == <<"n","a","a">>
Str_t10 == <<"t","1","0">>
Str_ATA == <<"A","T","A">>
Str_all == <<"a","l","l">>
Dot == <<".">>

RECURSIVE HexGroupsAt(_, _, _)
\* groups of hex digits of the given sizes, joined by '-', start at s[p]
HexGroupsAt(s, p, sizes) ==
    IF Len(sizes) = 0 THEN TRUE
    ELSE /\ p + sizes[1] - 1 <= Len(s)
         /\ AllIn(s, p, p + sizes[1] - 1, HexSet)
         /\ IF Len(sizes) = 1 THEN TRUE
            ELSE /\ p + sizes[1] <= Len(s)
                 /\ s[p + sizes[1]] = "-"
                 /\ HexGroupsAt(s, p + sizes[1] + 1, Tail(sizes))

\* re.match('(naa|t10)\.(.+)', str, re.IGNORECASE)
MatchesDevice(s) ==
    /\ Len(s) >= 5
    /\ Lower(SubSeq(s, 1, 3)) \in {Str_naa, Str_t10}
    /\ s[4] = "."

\* DeviceRule keeping the last 10 characters of the identifier
DeviceRule_Last10(s) ==
    IF MatchesDevice(s)
    THEN LET id_type == Lower(SubSeq(s, 1, 3))
             identifier == Lower(SubSeq(s, 5, Len(s)))
         IN  IF StartsWith(identifier, Str_ATA)
             THEN s
             ELSE id_type \o Suffix(identifier, 10)
    ELSE s

\* NAA/T10 Canonical Names
DeviceRule(s) ==
    IF MatchesDevice(s)
    THEN LET id_type == Lower(SubSeq(s, 1, 3))
             identifier == Lower(SubSeq(s, 5, Len(s)))
         IN  IF StartsWith(identifier, Str_ATA)
             THEN s   \* only the local 'identifier' is reassigned, str is kept
             ELSE id_type \o Suffix(identifier, 12)
    ELSE s

\* positions p where '\s\(<8-4-4-4-12 uuid>\)' starts
VCloudAt(s, p) ==
    /\ p + 38 <= Len(s)
    /\ s[p] \in SpaceSet
    /\ s[p + 1] = "("
    /\ HexGroupsAt(s, p + 2, <<8, 4, 4, 4, 12>>)
    /\ s[p + 38] = ")"

Max(S) == CHOOSE x \in S : \A y \in S : y <= x

\* vCloud Director naming pattern; the greedy (.*) takes the last match
VCloudRule(s) ==
    LET ps == {p \in 1..(Len(s) - 38) : VCloudAt(s, p)}
    IN  IF ps = {} THEN s
        ELSE LET p == Max(ps)
                 vm_name == Lower(Slice(s, 1, p - 1))
                 uuid == Lower(SubSeq(s, p + 2, p + 37))
                 suffix == Lower(Slice(s, p + 39, Len(s)))
             IN  Prefix(vm_name, 6) \o <<"-">> \o Prefix(uuid, 6) \o suffix

\* VMFS UUIDs, 8-8-4-12; the greedy (.*) takes the last match
VMFSRule(s) ==
    LET ps == {p \in 1..(Len(s) - 34) : HexGroupsAt(s, p, <<8, 8, 4, 12>>)}
    IN  IF ps = {} THEN s
        ELSE LET p == Max(ps)
                 before == Lower(Slice(s, 1, p - 1))
                 uuid == Lower(SubSeq(s, p, p + 34))
                 after == Lower(Slice(s, p + 35, Len(s)))
             IN  before \o Prefix(uuid, 12) \o after

Str_millisecond == <<"m","i","l","l","i","s","e","c","o","n","d">>
Str_percent == <<"p","e","r","c","e","n","t">>
Str_number == <<"n","u","m","b","e","r">>
Str_kiloBytes == <<"k","i","l","o","B","y","t","e","s">>
Str_kiloBytesPerSecond == Str_kiloBytes \o <<"P","e","r","S","e","c","o","n","d">>
Str_megaBytes == <<"m","e","g","a","B","y","t","e","s">>
Str_datastore == <<"d","a","t","a","s","t","o","r","e">>

\* truncate units, truncate groups: the replacements, in source order
Vocabulary ==
    << <<Str_millisecond, <<"m","s">>>>,
       <<Str_percent, <<"p","e","r","c">>>>,
       <<Str_number, <<"n","u","m">>>>,
       <<Str_kiloBytesPerSecond, <<"K","B","p","s">>>>,
       <<Str_kiloBytes, <<"K","B">>>>,
       <<Str_megaBytes, <<"M","B">>>>,
       <<Str_datastore, <<"d","s">>>> >>

RECURSIVE ReplaceAll(_, _, _)
\* str = str.replace(old, new) for every pair from the i-th on
ReplaceAll(s, pairs, i) ==
    IF i > Len(pairs) THEN s
    ELSE ReplaceAll(Replace(s, pairs[i][1], pairs[i][2]), pairs, i + 1)

VocabularyRule(s) == ReplaceAll(s, Vocabulary, 1)

truncate(s) == VocabularyRule(VMFSRule(VCloudRule(DeviceRule(s))))

\* (?!\d+\.|-) at position p
FQDNNegLook(s, p) ==
    \/ (p <= Len(s) /\ s[p] = "-")
    \/ \E k \in 1..(Len(s) - p) :
          /\ p + k <= Len(s)
          /\ AllIn(s, p, p + k - 1, DigitChars)
          /\ s[p + k] = "."

\* positions after one '(?!\d+\.|-)[a-zA-Z0-9_\-]{1,63}(?<!-)\.?' from p
FQDNIter(s, p) ==
    IF p > Len(s) \/ FQDNNegLook(s, p) THEN {}
    ELSE UNION {
           IF /\ p + k - 1 <= Len(s)
              /\ AllIn(s, p, p + k - 1, LabelSet)
              /\ s[p + k - 1] # "-"
           THEN {p + k} \cup
                (IF p + k <= Len(s) /\ s[p + k] = "." THEN {p + k + 1} ELSE {})
           ELSE {} : k \in 1..(IF Len(s) - p + 1 < 63 THEN Len(s) - p + 1 ELSE 63) }

RECURSIVE FQDNReach(_, _, _)
\* positions reachable by one or more iterations of the label group
FQDNReach(s, seen, frontier) ==
    IF frontier = {} THEN seen
    ELSE LET nxt == UNION {FQDNIter(s, p) : p \in frontier}
         IN  FQDNReach(s, seen \cup frontier, nxt \ (seen \cup frontier))

\* (?:[a-zA-Z]{2,})$ from position p
FQDNTail(s, p) == Len(s) - p + 1 >= 2 /\ AllIn(s, p, Len(s), LetterSet)

MatchesFQDN(s) ==
    /\ Len(s) \in 1..254
    /\ \E q \in FQDNReach(s, {}, FQDNIter(s, 1)) : FQDNTail(s, q)

FQDNtruncate(s) == IF MatchesFQDN(s) THEN Split(s, ".")[1] ELSE s

RECURSIVE TruncateClosure(_)
\* the pairs <<x, truncate(x)>> for a set of strings closed under truncate
TruncateClosure(S) ==
    LET P == {<<x, truncate(x)>> : x \in S}
        T == S \cup {p[2] : p \in P}
    IN  IF T = S THEN P ELSE TruncateClosure(T)

Str_HostSystem == <<"H","o","s","t","S","y","s","t","e","m">>
Str_VirtualMachine == <<"V","i","r","t","u","a","l","M","a","c","h","i","n","e">>

Objtruncate(s) ==
    IF s = Str_HostSystem THEN Replace(s, Str_HostSystem, <<"H","S">>)
    ELSE IF s = Str_VirtualMachine THEN Replace(s, Str_VirtualMachine, <<"V","M">>)
    ELSE s

(***************************************************************************)
(* Python values and program constants.                                    *)
(***************************************************************************)
\* the python value None, as a name, an entity reference or a returned value
None == "None"
NoneVal == [kind |-> "None"]
\* a number: the integer create_environment returns when SmartConnect returned
\* nothing, or the value of an unquoted number in the configuration
IntVal(n) == [kind |-> "int", val |-> n]
\* a str, where the code tells it from a number
StrVal(s) == [kind |-> "str", val |-> s]
\* an exception leaves the function instead of a value
RaiseVal == [kind |-> "raise"]

INTERVAL == 60
\* qSpec.intervalId, and the real-time period of QueryAvailablePerfMetric
QueryInterval == 20
RealtimePeriod == 20
DSTShift == 3600

(***************************************************************************)
(* The control plane (vCenter) the plugin talks to: two endpoints with a   *)
(* fixed inventory, counter catalog and queryable-metric lists.  What      *)
(* varies between calls of the plugin (connection outcome, power states,   *)
(* DST) is the input of each callback, see Worlds.                         *)
(***************************************************************************)
EP1 == "vc1.lab"
EP2 == "vc2.lab"
Endpoints == {EP1, EP2}

Str_cl1 == <<"c","l","1">>
Str_cl0 == <<"c","l","0">>
Str_sa == <<"s","a">>
Str_longcluster == <<"p","r","o","d","u","c","t","i","o","n","-","c","l","u","s","t","e","r","-","f","r","a","n","k","f","u","r","t","-","0","1">>
Str_cpu == <<"c","p","u">>
Str_mem == <<"m","e","m">>
Str_usage == <<"u","s","a","g","e">>
Str_read == <<"r","e","a","d">>
Str_average == <<"a","v","e","r","a","g","e">>
Str_maximum == <<"m","a","x","i","m","u","m">>
Str_naadev == <<"n","a","a",".","6","0","0","5","0","8","B","1","0","0","1","C","4","D","7","E">>
Str_disk == <<"d","i","s","k">>
\* a device label whose last 12 characters begin with a dot
Str_dotdev == <<"n","a","a",".","6","0","0","0",".","a","b","c","d","e","f","g","h","i","j","k">>

EntityName(x) ==
    CASE x = "h1" -> <<"e","s","x","1",".","l","a","b",".","l","o","c","a","l">>
      [] x = "h2" -> <<"e","s","x","2",".","l","a","b",".","l","o","c","a","l">>
      [] x = "h3" -> <<"e","s","x"," ","3">>
      [] x = "h4" -> <<"1","0",".","0",".","0",".","4">>
      [] x = "v1" -> <<"w","e","b","0","1">>
      [] x = "v3" -> <<"d","b",".","l","a","b",".","l","o","c","a","l">>

Hosts == {"h1", "h2", "h3", "h4"}
VMs == {"v1", "v3"}

\* entity._wsdlName
WsdlName(x) == IF x \in Hosts THEN Str_HostSystem ELSE Str_VirtualMachine

\* host.vm
HostVMs(h) ==
    CASE h = "h1" -> <<"v1">>
      [] h = "h2" -> <<>>
      [] h = "h3" -> <<"v3">>
      [] h = "h4" -> <<>>

VMRef(v) == [wsdl |-> "VirtualMachine", id |-> v]

\* serviceInstance.RetrieveServiceContent().rootFolder.childEntity
RootChildren(e) ==
    IF e = EP1
    THEN << [wsdl |-> "Datacenter",
             hostFolder |-> << [wsdl |-> "ClusterComputeResource",
                                name |-> Str_cl1, host |-> <<"h1", "h2">>] >>,
             vmFolder |-> << [wsdl |-> "Folder",
                              childEntity |-> << VMRef("v1") >>] >>] >>
    ELSE << [wsdl |-> "Folder"],
            [wsdl |-> "Datacenter",
             hostFolder |-> << [wsdl |-> "ComputeResource",
                                name |-> Str_sa, host |-> <<"h4">>],
                               [wsdl |-> "ClusterComputeResource",
                                name |-> Str_longcluster, host |-> <<"h3">>],
                               [wsdl |-> "ClusterComputeResource",
                                name |-> Str_cl0, host |-> <<>>] >>,
             vmFolder |-> << [wsdl |-> "VirtualApp", vm |-> <<"v3">>] >>] >>

\* performanceManager.perfCounter: the counter metadata catalog
PerfCounters ==
    << [key |-> 1, group |-> Str_cpu, name |-> Str_usage,
        unit |-> Str_percent, rollupType |-> Str_average],
       [key |-> 2, group |-> Str_mem, name |-> Str_usage,
        unit |-> Str_percent, rollupType |-> Str_average],
       [key |-> 3, group |-> Str_datastore, name |-> Str_read,
        unit |-> Str_kiloBytesPerSecond, rollupType |-> Str_average],
       [key |-> 4, group |-> Str_cpu, name |-> Str_usage,
        unit |-> Str_percent, rollupType |-> Str_maximum],
       [key |-> 5, group |-> Str_disk, name |-> Str_read,
        unit |-> Str_kiloBytesPerSecond, rollupType |-> Str_average] >>

\* performanceManager.historicalInterval[0].samplingPeriod
HistPeriod == 300

MetricId(c, inst) == [counterId |-> c, instance |-> inst]

\* performanceManager.QueryAvailablePerfMetric(entity, None, None, period)
QueryAvailablePerfMetric(x, period) ==
    IF x \in Hosts
    THEN IF period = RealtimePeriod
         THEN IF x = "h1"
              THEN << MetricId(1, <<>>), MetricId(3, Str_naadev), MetricId(5, Str_dotdev) >>
              ELSE << MetricId(1, <<>>), MetricId(2, <<>>) >>
         ELSE << MetricId(1, <<>>), MetricId(2, <<>>) >>
    ELSE IF period = RealtimePeriod
         THEN << MetricId(1, <<"0">>), MetricId(2, <<>>) >>
         ELSE << MetricId(2, <<>>), MetricId(4, <<>>) >>

\* performanceManager.QueryPerfCounter(ids): one counter info per id, in order
QueryPerfCounter(ids) ==
    [j \in 1..Len(ids) |->
        PerfCounters[CHOOSE k \in 1..Len(PerfCounters) : PerfCounters[k].key = ids[j]]]

\* number of samples the control plane returns per series in one window
NSamples == 2
\* epoch seconds of the first poll
Epoch0 == 1000

\* datetime.datetime.today() at a tick, as epoch seconds
Now(t) == Epoch0 + INTERVAL * t

\* performanceManager.QueryPerf(qSpecs): one EntityMetric per query
\* specification, in order, one series per requested metric id
QueryPerf(qSpecs) ==
    [p \in 1..Len(qSpecs) |->
        [entity |-> qSpecs[p].entity,
         sampleInfo |-> [i \in 1..NSamples |->
                            qSpecs[p].endTime - QueryInterval * (NSamples - i)],
         value |-> [o \in 1..Len(qSpecs[p].metricId) |->
                      [id |-> qSpecs[p].metricId[o],
                       value |-> [i \in 1..NSamples |->
                                    10 * qSpecs[p].metricId[o].counterId + i]]]]]

\* what the control plane looks like when a callback runs: the outcome of
\* SmartConnect per endpoint ("ok" a session, "none" nothing, "raise" an
\* exception), the powered-on entities, time.localtime().tm_isdst
AllOn == Hosts \cup VMs

PowerPatterns == { AllOn, AllOn \ {"h1"}, AllOn \ {"v1"} }

ConnPatterns ==
    { [e \in Endpoints |-> IF e = EP1 THEN a ELSE b] :
        a \in {"ok", "raise"}, b \in {"ok", "none"} }

\* the worlds init_callback meets (it does not read the clock)
InitWorlds ==
    { [conn |-> c, on |-> pw, isdst |-> 0] : c \in ConnPatterns, pw \in PowerPatterns }

\* the worlds read_callback meets (it does not read a power state)
ReadWorlds ==
    { [conn |-> c, on |-> AllOn, isdst |-> d] : c \in ConnPatterns, d \in {0, 1} }

PoweredOn(w, x) == x \in w.on

(***************************************************************************)
(* configure_callback: one configuration block is a sequence of nodes      *)
(* (conf.children), each with a key and its values.                        *)
(***************************************************************************)
Node(k, v) == [key |-> k, values |-> <<v>>]

ConfBlocks ==
    { << Node(<<"N","a","m","e">>, "vcA"), Node(<<"H","o","s","t">>, EP1), Node(<<"H","o","s","t","_","C","o","u","n","t","e","r","s">>, <<"a","l","l">>),
         Node(<<"P","o","r","t">>, StrVal(<<" ","8","4","4","3"," ">>)) >>,
      << Node(<<"n","a","m","e">>, "vcA"), Node(<<"h","o","s","t">>, EP1), Node(<<"C","o","l","o","u","r">>, <<"r","e","d">>),
         Node(<<"p","o","r","t">>, IntVal(8443)),
         Node(<<"h","o","s","t","_","c","o","u","n","t","e","r","s">>, <<"c","p","u",".","u","s","a","g","e">>), Node(<<"v","m","_","c","o","u","n","t","e","r","s">>, <<" ","m","e","m",".","u","s","a","g","e",",">>) >>,
      << Node(<<"N","a","m","e">>, "vcB"), Node(<<"H","o","s","t">>, EP2),
         Node(<<"h","o","s","t","_","c","o","u","n","t","e","r","s">>, <<"d","a","t","a","s","t","o","r","e",".","r","e","a","d",",","c","p","u",".","u","s","a","g","e">>),
         Node(<<"v","m","_","c","o","u","n","t","e","r","s">>, <<"a","l","l">>),
         Node(<<"I","n","v","e","n","t","o","r","y","_","R","e","f","r","e","s","h","_","I","n","t","e","r","v","a","l">>, StrVal(<<"+"," ","3","0","0">>)) >>,
      << Node(<<"H","o","s","t">>, EP2) >>,
      \* a port that is not a number: int() raises
      << Node(<<"N","a","m","e">>, "vcA"), Node(<<"P","o","r","t">>, StrVal(<<"a","b","c">>)) >> }

RECURSIVE ParseCounters(_, _, _)
\* for m in values: if len(m) > 0: counters.append(m.strip())
ParseCounters(values, i, counters) ==
    IF i > Len(values) THEN counters
    ELSE ParseCounters(values, i + 1,
            IF Len(values[i]) > 0 THEN Append(counters, Strip(values[i]))
            ELSE counters)

\* the host_counters / vm_counters branch: appends to the list built so far
AddCounters(counters, str) ==
    IF str # Str_all THEN ParseCounters(Split(str, ","), 1, counters)
    ELSE counters

DefaultConfig ==
    [name |-> None, host |-> None, port |-> 443, verbose |-> None,
     username |-> "root", password |-> "vmware",
     host_counters |-> <<>>, vm_counters |-> <<>>,
     inventory_refresh_interval |-> 600]

DigitSeq == <<"0","1","2","3","4","5","6","7","8","9">>

RECURSIVE Decimal(_)
\* the number a non-empty string of decimal digits denotes
Decimal(s) ==
    IF Len(s) = 0 THEN 0
    ELSE 10 * Decimal(SubSeq(s, 1, Len(s) - 1))
         + (CHOOSE d \in 0..9 : DigitSeq[d + 1] = s[Len(s)])

\* int(x) of a configuration value, which carries its Python type: a number
\* is kept; a string is stripped of whitespace and read as an optional sign,
\* whitespace again, then decimal digits; anything else is a ValueError
int(x) ==
    IF x.kind = "int" THEN [ok |-> TRUE, val |-> x.val]
    ELSE LET t == Strip(x.val)
             signed == Len(t) > 0 /\ t[1] \in {"+", "-"}
             digits == IF signed THEN LStrip(Tail(t)) ELSE t
         IN  IF Len(digits) > 0 /\ AllIn(digits, 1, Len(digits), DigitChars)
             THEN [ok |-> TRUE,
                   val |-> IF signed /\ t[1] = "-" THEN 0 - Decimal(digits)
                           ELSE Decimal(digits)]
             ELSE [ok |-> FALSE, val |-> 0]

Key_port == <<"p","o","r","t">>
Key_inventory_refresh_interval == <<"i","n","v","e","n","t","o","r","y","_","r","e","f","r","e","s","h","_","i","n","t","e","r","v","a","l">>

RECURSIVE ConfigureLoop(_, _, _)
\* for node in conf.children; RaiseVal when int() raises ValueError
ConfigureLoop(children, i, c) ==
    IF i > Len(children) THEN c
    ELSE LET key == Lower(children[i].key)
             val == children[i].values
         IN  IF key \in {Key_port, Key_inventory_refresh_interval} /\ ~int(val[1]).ok
             THEN RaiseVal
             ELSE
             ConfigureLoop(children, i + 1,
               CASE key = <<"n","a","m","e">> -> [c EXCEPT !.name = val[1]]
                 [] key = <<"h","o","s","t">> -> [c EXCEPT !.host = val[1]]
                 [] key = Key_port -> [c EXCEPT !.port = int(val[1]).val]
                 [] key = <<"v","e","r","b","o","s","e">> -> [c EXCEPT !.verbose = (Len(val) > 0)]
                 [] key = <<"u","s","e","r","n","a","m","e">> -> [c EXCEPT !.username = val[1]]
                 [] key = <<"p","a","s","s","w","o","r","d">> -> [c EXCEPT !.password = val[1]]
                 [] key = <<"h","o","s","t","_","c","o","u","n","t","e","r","s">> ->
                      [c EXCEPT !.host_counters = AddCounters(@, val[1])]
                 [] key = <<"v","m","_","c","o","u","n","t","e","r","s">> ->
                      [c EXCEPT !.vm_counters = AddCounters(@, val[1])]
                 [] key = Key_inventory_refresh_interval ->
                      [c EXCEPT !.inventory_refresh_interval = int(val[1]).val]
                 [] OTHER -> c)

(***************************************************************************)
(* create_environment                                                      *)
(***************************************************************************)
\* SmartConnect(host, user, pwd) as the control plane answers in world w
SmartConnect(w, host) == w.conn[host]

\* Fetch the Counter IDs: ids of the catalog entries whose group.counter is
\* in config['vm_counters'] + config['host_counters']
FilteredCounterIds(config) ==
    LET wanted == Range(config.vm_counters \o config.host_counters)
    IN  SelectSeq([k \in 1..Len(PerfCounters) |->
                     [key |-> PerfCounters[k].key,
                      counterKey |-> PerfCounters[k].group \o Dot \o PerfCounters[k].name]],
                  LAMBDA c : c.counterKey \in wanted)

RECURSIVE ProbeHostLoop(_, _, _, _, _)
\* for hostFolderChild in child.hostFolder.childEntity, with its break
ProbeHostLoop(w, children, i, host, vm) ==
    IF i > Len(children) THEN host
    ELSE LET hs == children[i].host
             h2 == IF Len(hs) # 0 /\ PoweredOn(w, hs[1]) THEN hs[1] ELSE host
         IN  IF vm # None /\ h2 # None THEN h2
             ELSE ProbeHostLoop(w, children, i + 1, h2, vm)

RECURSIVE ProbeVMLoop(_, _, _, _, _)
\* for tmp in vmList, where vmList grows while it is iterated
ProbeVMLoop(w, vmList, i, host, vm) ==
    IF i > Len(vmList) THEN vm
    ELSE LET tmp == vmList[i]
         IN  CASE tmp.wsdl = "VirtualMachine" ->
                    IF PoweredOn(w, tmp.id)
                    THEN IF host # None THEN tmp.id
                         ELSE ProbeVMLoop(w, vmList, i + 1, host, tmp.id)
                    ELSE ProbeVMLoop(w, vmList, i + 1, host, vm)
               [] tmp.wsdl = "Folder" ->
                    ProbeVMLoop(w, vmList \o tmp.childEntity, i + 1, host, vm)
               [] tmp.wsdl = "VirtualApp" ->
                    ProbeVMLoop(w, vmList \o [j \in 1..Len(tmp.vm) |-> VMRef(tmp.vm[j])],
                                i + 1, host, vm)
               [] OTHER -> ProbeVMLoop(w, vmList, i + 1, host, vm)

RECURSIVE ProbeLoop(_, _, _, _, _)
\* for child in rootFolder.childEntity: the probe host and VM
ProbeLoop(w, children, i, host, vm) ==
    IF i > Len(children) THEN [host |-> host, vm |-> vm]
    ELSE IF children[i].wsdl = "Datacenter"
         THEN LET h2 == ProbeHostLoop(w, children[i].hostFolder, 1, host, vm)
                  v2 == ProbeVMLoop(w, children[i].vmFolder, 1, h2, vm)
              IN  ProbeLoop(w, children, i + 1, h2, v2)
         ELSE ProbeLoop(w, children, i + 1, host, vm)

Probe(w, e) == ProbeLoop(w, RootChildren(e), 1, None, None)

\* CounterIds without the "empty list selects all" branch
CounterIds_AlwaysFilter(counters, lookup, filteredCounterIds) ==
    SelectSeq(lookup, LAMBDA metric : metric.counterId \in filteredCounterIds)

\* the allow-list of one scope: everything when the configured list is
\* empty, else the discovered descriptors whose counter id was resolved
CounterIds(counters, lookup, filteredCounterIds) ==
    IF Len(counters) = 0 THEN lookup
    ELSE SelectSeq(lookup, LAMBDA metric : metric.counterId \in filteredCounterIds)

\* The result of create_environment(config) in world w:
\*   ret      what is returned: an environment, None, -1, or nothing when
\*            an exception leaves the function ("raise")
\*   session  TRUE when SmartConnect opened a session
\*   level    TRUE when UpdatePerfInterval raised the historical level
create_environment(config, w) ==
    LET conn == SmartConnect(w, config.host)
        filtered == {c.key : c \in Range(FilteredCounterIds(config))}
        probe == Probe(w, config.host)
        lookup_host == QueryAvailablePerfMetric(probe.host, HistPeriod)
                       \o QueryAvailablePerfMetric(probe.host, RealtimePeriod)
        lookup_vm == QueryAvailablePerfMetric(probe.vm, HistPeriod)
                     \o QueryAvailablePerfMetric(probe.vm, RealtimePeriod)
    IN  IF conn = "raise"
        THEN [ret |-> RaiseVal, session |-> FALSE, level |-> FALSE]
        ELSE IF conn = "none"
        THEN [ret |-> IntVal(-1), session |-> FALSE, level |-> FALSE]
        ELSE IF probe.host = None \/ probe.vm = None
        THEN \* the log message concatenates config.get("name")
             IF config.name = None
             THEN [ret |-> RaiseVal, session |-> TRUE, level |-> FALSE]
             ELSE [ret |-> NoneVal, session |-> TRUE, level |-> FALSE]
        ELSE [ret |-> [kind |-> "env",
                       host |-> config.host,
                       username |-> config.username,
                       password |-> config.password,
                       lookup_host |-> lookup_host,
                       lookup_vm |-> lookup_vm,
                       host_counter_ids |->
                           CounterIds(config.host_counters, lookup_host, filtered),
                       vm_counter_ids |->
                           CounterIds(config.vm_counters, lookup_vm, filtered)],
              session |-> TRUE, level |-> TRUE]

(***************************************************************************)
(* colletMetricsForEntities                                                *)
(***************************************************************************)
\* The query specifications handed to QueryPerf.  The source appends the one
\* qSpec object once per entity after setting qSpec.entity, so every element
\* of qSpecs is that object as the loop left it.
BuildQSpecs(filteredMetricIds, entities, t) ==
    [p \in 1..Len(entities) |->
        [entity |-> entities[Len(entities)],
         metricId |-> filteredMetricIds,
         format |-> "normal",
         startTime |-> Now(t) - INTERVAL,
         endTime |-> Now(t),
         intervalId |-> QueryInterval]]

\* truncate and FQDNtruncate on the strings of this control plane, computed
\* once: the labels, units, groups and rollup types it can return, and
\* what truncate makes of them
TruncateTable ==
    TruncateClosure(
        {PerfCounters[k].unit : k \in 1..Len(PerfCounters)}
        \cup {PerfCounters[k].group : k \in 1..Len(PerfCounters)}
        \cup {PerfCounters[k].rollupType : k \in 1..Len(PerfCounters)}
        \cup UNION {{m.instance : m \in Range(QueryAvailablePerfMetric(x, per))} :
                      x \in Hosts \cup VMs, per \in {HistPeriod, RealtimePeriod}}
        \cup {Str_all})

FQDNTable == [x \in Hosts \cup VMs |-> FQDNtruncate(EntityName(x))]

\* truncate(str) as the sample loop calls it
Truncated(str) == (CHOOSE p \in TruncateTable : p[1] = str)[2]

\* type_instance of one sample
TypeInstance(cluster_name, entity, group, instance, rollupType, counter, unit) ==
    Replace(cluster_name \o Dot \o Objtruncate(WsdlName(entity)) \o Dot
            \o FQDNTable[entity] \o Dot \o group \o Dot
            \o instance \o Dot \o rollupType \o Dot \o counter \o Dot \o unit,
            <<" ">>, <<"_">>)

\* Timestamp with the hour added whatever tm_isdst is
Timestamp_AlwaysShift(raw, tm_isdst) == raw + DSTShift

\* timestamp += time.localtime().tm_isdst * (3600)
Timestamp(raw, tm_isdst) == raw + tm_isdst * DSTShift

\* InstanceOrAll leaving an empty instance empty
InstanceOrAll_Keep(instance) == instance

\* instance = "all" if instance == "" else instance
InstanceOrAll(instance) == IF instance = <<>> THEN Str_all ELSE instance

RECURSIVE ValueLoop(_, _, _, _, _, _, _, _, _, _, _)
\* for i in range(len(metric.value)): instance, unit, group and rollupType
\* are reassigned in the loop body and carried into the next iteration
ValueLoop(w, cluster_name, entity, em, metric, counter, i, group, instance, unit, rollupType) ==
    IF i > Len(metric.value) THEN <<>>
    ELSE LET \* the body with the four strings as truncate returned them
             Body(raw, instance2, unit2, group2, rollupType2) ==
                 << [time |-> Timestamp(raw, w.isdst),
                     type_instance |-> TypeInstance(cluster_name, entity, group2,
                                                    instance2, rollupType2, counter, unit2),
                     values |-> <<metric.value[i]>>,
                     raw |-> raw,
                     entity |-> entity,
                     queried |-> em.entity,
                     id |-> metric.id,
                     index |-> i] >>
                 \o ValueLoop(w, cluster_name, entity, em, metric, counter, i + 1,
                              group2, instance2, unit2, rollupType2)
             Truncate4(tr) == Body(em.sampleInfo[i], InstanceOrAll(tr[1]), tr[2], tr[3], tr[4])
         IN  Truncate4([j \in 1..4 |-> Truncated(<<instance, unit, group, rollupType>>[j])])

\* for o in range(len(metricsOfEntity)), for one entity p of the result
MetricLoop(w, cluster_name, entity, em) ==
    LET ids == [o \in 1..Len(em.value) |-> em.value[o].id.counterId]
        Samples(perfCounterInfoList) ==
            [o \in 1..Len(em.value) |->
               ValueLoop(w, cluster_name, entity, em, em.value[o],
                         perfCounterInfoList[o].name, 1,
                         perfCounterInfoList[o].group,
                         em.value[o].id.instance,
                         perfCounterInfoList[o].unit,
                         perfCounterInfoList[o].rollupType)]
    IN  [lookup |-> ids, samples |-> Samples(QueryPerfCounter(ids))]

RECURSIVE Flatten(_)
Flatten(ss) == IF Len(ss) = 0 THEN <<>> ELSE Head(ss) \o Flatten(Tail(ss))

Nothing == [queries |-> <<>>, lookups |-> <<>>, dispatched |-> <<>>]

\* metricsOfEntities = performanceManager.QueryPerf(qSpecs) and
\* for p in range(len(metricsOfEntities)): the entity named for result p is
\* entities[p]
EntityLoop(w, cluster_name, entities, qSpecs) ==
    LET PerEntity(metricsOfEntities) ==
            [p \in 1..Len(metricsOfEntities) |->
               MetricLoop(w, cluster_name, entities[p], metricsOfEntities[p])]
        Result(per) ==
            [queries |-> << [entities |-> entities, qSpecs |-> qSpecs] >>,
             lookups |-> [p \in 1..Len(per) |-> per[p].lookup],
             dispatched |-> Flatten(Flatten([p \in 1..Len(per) |-> per[p].samples]))]
    IN  Result(PerEntity(QueryPerf(qSpecs)))

\* colletMetricsForEntities without the return on an empty entity list
colletMetricsForEntities_NoEarlyReturn(w, t, filteredMetricIds, entities, cluster_name) ==
    EntityLoop(w, cluster_name, entities, BuildQSpecs(filteredMetricIds, entities, t))

\* The effect of colletMetricsForEntities(performanceManager,
\* filteredMetricIds, entities, cluster_name) at tick t in world w:
\*   queries     the batches passed to QueryPerf (none or one)
\*   lookups     the id lists passed to QueryPerfCounter
\*   dispatched  the samples passed to cd_value.dispatch, in order
colletMetricsForEntities(w, t, filteredMetricIds, entities, cluster_name) ==
    IF Len(entities) = 0
    THEN Nothing
    ELSE EntityLoop(w, cluster_name, entities, BuildQSpecs(filteredMetricIds, entities, t))

(***************************************************************************)
(* read_callback                                                           *)
(***************************************************************************)
\* the call site of a batch: which endpoint, cluster and scope it is for,
\* and for the vm scope the host whose VMs are queried
Tag(r, name, scope, cluster_name, parent, entities) ==
    [calls |-> << [name |-> name, scope |-> scope, cluster |-> cluster_name,
                   parent |-> parent, entities |-> entities,
                   queries |-> Len(r.queries), lookups |-> Len(r.lookups),
                   dispatched |-> Len(r.dispatched)] >>,
     queries |-> [k \in 1..Len(r.queries) |->
                    [name |-> name, scope |-> scope,
                     cluster |-> cluster_name, parent |-> parent,
                     entities |-> r.queries[k].entities,
                     qSpecs |-> r.queries[k].qSpecs]],
     lookups |-> r.lookups,
     dispatched |-> [k \in 1..Len(r.dispatched) |->
                       [time |-> r.dispatched[k].time,
                        type_instance |-> r.dispatched[k].type_instance,
                        values |-> r.dispatched[k].values,
                        raw |-> r.dispatched[k].raw,
                        entity |-> r.dispatched[k].entity,
                        queried |-> r.dispatched[k].queried,
                        id |-> r.dispatched[k].id,
                        index |-> r.dispatched[k].index,
                        name |-> name, scope |-> scope, parent |-> parent]]]

Cat(a, b) ==
    [calls |-> a.calls \o b.calls,
     queries |-> a.queries \o b.queries,
     lookups |-> a.lookups \o b.lookups,
     dispatched |-> a.dispatched \o b.dispatched]

NoCalls == [calls |-> <<>>, queries |-> <<>>, lookups |-> <<>>, dispatched |-> <<>>]

\* ClusterBatches with the VMs of the hosts collected before the hosts
ClusterBatches_VMsFirst(env, cluster) ==
    [i \in 1..Len(SelectSeq(cluster.host, LAMBDA h : WsdlName(h) = Str_HostSystem)) |->
          LET host == SelectSeq(cluster.host, LAMBDA h : WsdlName(h) = Str_HostSystem)[i]
          IN  [scope |-> "vm", parent |-> host, ids |-> env.vm_counter_ids,
               entities |-> HostVMs(host), cluster |-> cluster.name]]
    \o << [scope |-> "host", parent |-> None, ids |-> env.host_counter_ids,
           entities |-> cluster.host, cluster |-> cluster.name] >>

\* the invocations of colletMetricsForEntities for one cluster, in order:
\* its hosts, then the VMs of each of its hosts that is a HostSystem
ClusterBatches(env, cluster) ==
    << [scope |-> "host", parent |-> None, ids |-> env.host_counter_ids,
        entities |-> cluster.host, cluster |-> cluster.name] >>
    \o [i \in 1..Len(SelectSeq(cluster.host, LAMBDA h : WsdlName(h) = Str_HostSystem)) |->
          LET host == SelectSeq(cluster.host, LAMBDA h : WsdlName(h) = Str_HostSystem)[i]
          IN  [scope |-> "vm", parent |-> host, ids |-> env.vm_counter_ids,
               entities |-> HostVMs(host), cluster |-> cluster.name]]

RECURSIVE ClusterLoop(_, _, _)
\* for cluster in datacenter.hostFolder.childEntity
ClusterLoop(env, children, i) ==
    IF i > Len(children) THEN <<>>
    ELSE (IF children[i].wsdl = "ClusterComputeResource"
          THEN ClusterBatches(env, children[i]) ELSE <<>>)
         \o ClusterLoop(env, children, i + 1)

RECURSIVE DatacenterLoop(_, _, _)
\* for datacenter in rootFolder.childEntity
DatacenterLoop(env, children, i) ==
    IF i > Len(children) THEN <<>>
    ELSE (IF children[i].wsdl = "Datacenter"
          THEN ClusterLoop(env, children[i].hostFolder, 1) ELSE <<>>)
         \o DatacenterLoop(env, children, i + 1)

RECURSIVE RunBatches(_, _, _, _, _)
\* the invocations of colletMetricsForEntities of one environment, in order
RunBatches(w, t, name, batches, i) ==
    IF i > Len(batches) THEN NoCalls
    ELSE LET b == batches[i]
         IN  Cat(Tag(colletMetricsForEntities(w, t, b.ids, b.entities, b.cluster),
                     name, b.scope, b.cluster, b.parent, b.entities),
                 RunBatches(w, t, name, batches, i + 1))

\* The body of the loop of read_callback for one environment: "raised" when
\* an exception leaves it, "session" when SmartConnect opened a session.
PollEnvironment(w, t, name, env) ==
    IF name = None \/ env.kind # "env"
    THEN \* "..." + name with name None, or env["host"] on None or -1
         [raised |-> TRUE, session |-> FALSE, out |-> NoCalls]
    ELSE IF SmartConnect(w, env.host) # "ok"
    THEN \* SmartConnect raises, or serviceInstance.RetrieveServiceContent()
         \* is called on the None it returned
         [raised |-> TRUE, session |-> FALSE, out |-> NoCalls]
    ELSE [raised |-> FALSE, session |-> TRUE,
          out |-> RunBatches(w, t, name,
                             DatacenterLoop(env, RootChildren(env.host), 1), 1)]

RECURSIVE ReadLoop(_, _, _, _, _)
\* for name in ENVIRONMENT.keys(), in the order the dictionary yields them
\* (the order of a dictionary is fixed once it is built: keyOrder);
\* an exception ends the loop and the callback
ReadLoop(w, t, envs, order, i) ==
    IF i > Len(order)
    THEN [out |-> NoCalls, sessions |-> 0, polled |-> <<>>, aborted |-> FALSE]
    ELSE LET \* r: this iteration; rest: the iterations after it, which
             \* run only if this one raised nothing
             Iteration(r, rest) ==
                 IF r.raised
                 THEN [out |-> NoCalls, sessions |-> 0, polled |-> <<>>, aborted |-> TRUE]
                 ELSE [out |-> Cat(r.out, rest.out),
                       sessions |-> 1 + rest.sessions,
                       polled |-> <<order[i]>> \o rest.polled,
                       aborted |-> rest.aborted]
         IN  Iteration(PollEnvironment(w, t, order[i], envs[order[i]]),
                       ReadLoop(w, t, envs, order, i + 1))

\* the orders in which a dictionary with these keys can yield them
KeyOrders(keys) ==
    {o \in [1..Cardinality(keys) -> keys] : \A k \in keys : \E i \in DOMAIN o : o[i] = k}

(***************************************************************************)
(* init_callback                                                           *)
(***************************************************************************)
\* ENVIRONMENT[name] = env
SetItem(envs, name, env) ==
    [n \in DOMAIN envs \cup {name} |-> IF n = name THEN env ELSE envs[n]]

RECURSIVE InitLoop(_, _, _, _)
\* for config in CONFIGS; an exception in create_environment ends the loop
InitLoop(w, configs, i, acc) ==
    IF i > Len(configs) THEN acc
    ELSE LET r == create_environment(configs[i], w)
             acc2 == [acc EXCEPT !.sessions = @ + (IF r.session THEN 1 ELSE 0),
                                 !.levels = IF r.level
                                            THEN @ \cup {configs[i].host} ELSE @]
         IN  IF r.ret.kind = "raise"
             THEN [acc2 EXCEPT !.aborted = TRUE]
             ELSE InitLoop(w, configs, i + 1,
                           [acc2 EXCEPT !.envs = SetItem(@, configs[i].name, r.ret),
                                        !.source = SetItem(@, configs[i].name, i)])

(***************************************************************************)
(* The callbacks collectd invokes, as actions.                             *)
(***************************************************************************)
EmptyDict == [n \in {} |-> NoneVal]

DefaultWorld ==
    [conn |-> [e \in Endpoints |-> "ok"], on |-> Hosts \cup VMs, isdst |-> 0]

\* the module globals and the history variables when the plugin is loaded
Loaded ==
    /\ CONFIGS = <<>>
    /\ ENVIRONMENT = EmptyDict
    /\ keyOrder = <<>>
    /\ envSource = [n \in {} |-> 0]
    /\ calls = <<>>
    /\ phase = "configure"
    /\ tick = 0
    /\ cp = DefaultWorld
    /\ leakedSessions = 0
    /\ perfLevel = [e \in Endpoints |-> 1]
    /\ queries = <<>>
    /\ counterLookups = <<>>
    /\ dispatched = <<>>
    /\ aborted = FALSE
    /\ polled = <<>>

Init == Loaded /\ strTrace = <<>>

configure_callback(conf) ==
    /\ phase = "configure"
    /\ Len(CONFIGS) < MaxConfigs
    /\ \E c \in {ConfigureLoop(conf, 1, DefaultConfig)} :
          IF c = RaiseVal
          THEN \* the ValueError leaves the callback before CONFIGS.append
               CONFIGS' = CONFIGS /\ aborted' = TRUE
          ELSE CONFIGS' = Append(CONFIGS, c) /\ aborted' = FALSE
    /\ UNCHANGED <<ENVIRONMENT, keyOrder, phase, tick, cp, leakedSessions, perfLevel,
                   envSource, calls, queries, counterLookups, dispatched, polled,
                   strTrace>>

\* the loop of init_callback over CONFIGS in world w
InitResult(w) ==
    InitLoop(w, CONFIGS, 1,
             [envs |-> ENVIRONMENT, source |-> envSource, sessions |-> 0,
              levels |-> {}, aborted |-> FALSE])

init_callback(w, order) ==
    /\ phase = "configure"
    /\ LET r == InitResult(w)
       IN  /\ ENVIRONMENT' = r.envs
           /\ order \in KeyOrders(DOMAIN r.envs)
           /\ envSource' = r.source
           /\ keyOrder' = order
           /\ leakedSessions' = r.sessions
           /\ perfLevel' = [e \in Endpoints |->
                              IF e \in r.levels THEN 2 ELSE perfLevel[e]]
           /\ aborted' = r.aborted
    /\ phase' = "read"
    /\ cp' = w
    /\ UNCHANGED <<CONFIGS, tick, calls, queries, counterLookups, dispatched, polled,
                   strTrace>>

\* read_callback dropping the cache entries that hold no environment
read_callback_DropFailed(w) ==
    /\ phase = "read"
    /\ tick < MaxTicks
    /\ \E r \in {ReadLoop(w, tick + 1, ENVIRONMENT, keyOrder, 1)} :
           /\ calls' = r.out.calls
           /\ queries' = r.out.queries
           /\ counterLookups' = r.out.lookups
           /\ dispatched' = r.out.dispatched
           /\ leakedSessions' = r.sessions
           /\ polled' = r.polled
           /\ aborted' = r.aborted
    /\ ENVIRONMENT' = [n \in {m \in DOMAIN ENVIRONMENT : ENVIRONMENT[m].kind = "env"} |->
                          ENVIRONMENT[n]]
    /\ tick' = tick + 1
    /\ cp' = w
    /\ UNCHANGED <<CONFIGS, keyOrder, phase, perfLevel, envSource, strTrace>>

read_callback(w) ==
    /\ phase = "read"
    /\ tick < MaxTicks
    /\ \E r \in {ReadLoop(w, tick + 1, ENVIRONMENT, keyOrder, 1)} :
           /\ calls' = r.out.calls
           /\ queries' = r.out.queries
           /\ counterLookups' = r.out.lookups
           /\ dispatched' = r.out.dispatched
           /\ leakedSessions' = r.sessions
           /\ polled' = r.polled
           /\ aborted' = r.aborted
    /\ tick' = tick + 1
    /\ cp' = w
    /\ UNCHANGED <<CONFIGS, ENVIRONMENT, keyOrder, phase, perfLevel, envSource, strTrace>>

Next ==
    \/ \E conf \in ConfBlocks : configure_callback(conf)
    \/ \E w \in InitWorlds :
          \E order \in KeyOrders(DOMAIN InitResult(w).envs) : init_callback(w, order)
    \/ \E w \in ReadWorlds : read_callback(w)

Spec == Init /\ [][Next]_vars

(***************************************************************************)
(* truncate on its own: a call runs its four rules in source order, and    *)
(* the sample loop calls it again on the value it returned.                *)
(***************************************************************************)
Str_C11dev == <<"n","a","a",".","6","0","0","0","c","2","9","0","1","2","3","4","5","6","7","8","d","e","a","d","b","e","e","f","c","a","f","e","f","0","0","d">>
Str_atadev == <<"t","1","0",".","A","T","A","_","_","S","T","5","0","0","_","_","9","V","M","5","_","_">>
Str_numdev == <<"T","1","0",".","d","i","s","k","_","n","u","m","b","e","r","_","0","1">>
Str_uuid == <<"0","1","2","3","4","5","6","7","-","8","9","A","B","-","c","d","e","f","-","0","1","2","3","-","4","5","6","7","8","9","a","b","c","d","e","f">>
Str_vmfs == <<"5","4","1","8","2","2","a","1","-","d","2","d","c","a","d","5","2","-","1","2","9","a","-","0","0","2","5","9","0","9","a","c","6","5","4">>
Str_vcloudvm == <<"W","e","b","s","h","o","p","0","1"," ","(">> \o Str_uuid \o <<")">>
Str_vcloudds == <<"d","b"," ","(">> \o Str_uuid \o <<")","-">> \o Str_datastore

\* the strings truncate is called with
TruncateInputs ==
    { Str_C11dev, Str_dotdev, Str_atadev, Str_numdev, Str_naadev,
      <<"n","a","a",".",".","x">>, <<"n","a","a",".">>,
      Str_vcloudvm, Str_vcloudds, Str_vmfs, <<"d","s",":","/","/","/">> \o Str_vmfs \o <<"/">>,
      Str_millisecond, Str_percent, Str_number, Str_kiloBytesPerSecond, Str_kiloBytes,
      Str_megaBytes, Str_datastore, Str_average, Str_maximum, Str_all, Str_cpu,
      <<>>, <<"0">>, <<"v","m","n","i","c","0">>,
      <<"p","e","r","c","e","n","t","e","n","t">> }

\* the rules of truncate, in source order
RuleCount == 4
ApplyRule(k, s) ==
    CASE k = 1 -> DeviceRule(s)
      [] k = 2 -> VCloudRule(s)
      [] k = 3 -> VMFSRule(s)
      [] k = 4 -> VocabularyRule(s)

TruncateInit ==
    /\ Loaded
    /\ \E s \in TruncateInputs : strTrace = << <<s>> >>

\* the next rule of the running call assigns str
truncate_rule ==
    /\ strTrace # <<>>
    /\ Len(strTrace[Len(strTrace)]) <= RuleCount
    /\ strTrace' = [strTrace EXCEPT ![Len(strTrace)] =
                       Append(@, ApplyRule(Len(@), @[Len(@)]))]
    /\ UNCHANGED <<CONFIGS, ENVIRONMENT, keyOrder, phase, tick, cp, leakedSessions,
                   perfLevel, envSource, calls, queries, counterLookups, dispatched,
                   aborted, polled>>

\* return str; instance = "all" if instance == "" else instance; then
\* instance = truncate(instance) of the next sample iteration
truncate_again ==
    /\ strTrace # <<>>
    /\ Len(strTrace) < MaxCalls
    /\ Len(strTrace[Len(strTrace)]) = RuleCount + 1
    /\ strTrace' = Append(strTrace, << InstanceOrAll(strTrace[Len(strTrace)][RuleCount + 1]) >>)
    /\ UNCHANGED <<CONFIGS, ENVIRONMENT, keyOrder, phase, tick, cp, leakedSessions,
                   perfLevel, envSource, calls, queries, counterLookups, dispatched,
                   aborted, polled>>

TruncateNext == truncate_rule \/ truncate_again

TruncateSpec == TruncateInit /\ [][TruncateNext]_vars

(***************************************************************************)
(* Properties.                                                             *)
(***************************************************************************)
\* the group.counter name of a counter id
CounterKeyOf(id) ==
    LET pc == PerfCounters[CHOOSE k \in 1..Len(PerfCounters) : PerfCounters[k].key = id]
    IN  pc.group \o Dot \o pc.name

\* the hosts and VMs of an endpoint's inventory
InventoryHosts(e) ==
    UNION {Range(c.host) :
             c \in UNION {Range(dc.hostFolder) :
                            dc \in {d \in Range(RootChildren(e)) : d.wsdl = "Datacenter"}}}

InventoryVMs(e) == UNION {Range(HostVMs(h)) : h \in InventoryHosts(e)}

\* names whose cache entry is an environment
BuiltNames == {n \in DOMAIN ENVIRONMENT : ENVIRONMENT[n].kind = "env"}

\* the parsed configuration block an entry of ENVIRONMENT was built from
ConfigOf(n) == CONFIGS[envSource[n]]

AfterInit == phase = "read" /\ tick = 0
AfterTick == phase = "read" /\ tick > 0

\* every configuration block gave its name
AllNamed == \A i \in DOMAIN CONFIGS : CONFIGS[i].name # None

\* C1: failures are scoped to one endpoint: after a tick, every endpoint
\* whose environment was built and whose connection succeeded in that tick
\* has been polled, whatever happened to the other endpoints.
C1_FailureScopedToEndpoint ==
    (AfterTick /\ AllNamed) =>
        \A n \in BuiltNames :
            cp.conn[ENVIRONMENT[n].host] = "ok" => n \in Range(polled)

\* C2: with a non-empty counter-name list for a scope, every descriptor of
\* that scope's allow-list has a group.counter name in that scope's own list.
C2_AllowListWithinOwnFilter ==
    \A n \in BuiltNames :
        /\ Len(ConfigOf(n).host_counters) > 0 =>
              \A d \in Range(ENVIRONMENT[n].host_counter_ids) :
                  CounterKeyOf(d.counterId) \in Range(ConfigOf(n).host_counters)
        /\ Len(ConfigOf(n).vm_counters) > 0 =>
              \A d \in Range(ENVIRONMENT[n].vm_counter_ids) :
                  CounterKeyOf(d.counterId) \in Range(ConfigOf(n).vm_counters)

\* every descriptor the control plane offers for an entity, at both periods
Discovered(x) ==
    Range(QueryAvailablePerfMetric(x, HistPeriod))
    \cup Range(QueryAvailablePerfMetric(x, RealtimePeriod))

\* C3: with an empty counter-name list for a scope (also from the value
\* "all"), the allow-list of that scope is the full set of descriptors
\* discovered for the scope's probe entity, whatever the other scope's list is.
C3_EmptyFilterSelectsAll ==
    AfterInit =>
        \A n \in BuiltNames :
            LET env == ENVIRONMENT[n]
                probe == Probe(cp, env.host)
            IN  /\ Len(ConfigOf(n).host_counters) = 0 =>
                      Range(env.host_counter_ids) = Discovered(probe.host)
                /\ Len(ConfigOf(n).vm_counters) = 0 =>
                      Range(env.vm_counter_ids) = Discovered(probe.vm)

\* an environment with an unfiltered vm scope next to a filtered host scope
\* (vm_counters "all"), and one with both scopes unfiltered
C3_Witness ==
    /\ AfterInit
    /\ \E n \in BuiltNames :
          /\ Len(ConfigOf(n).vm_counters) = 0
          /\ Len(ConfigOf(n).host_counters) > 0
          /\ Range(ENVIRONMENT[n].vm_counter_ids) = Discovered(Probe(cp, ENVIRONMENT[n].host).vm)
          /\ Range(ENVIRONMENT[n].host_counter_ids) # Discovered(Probe(cp, ENVIRONMENT[n].host).host)
          /\ Len(ENVIRONMENT[n].vm_counter_ids) > 0

\* C4: the batch passed to QueryPerf has one query specification per
\* entity, the i-th for the i-th entity, all with the same counter-id list,
\* time window and interval 20.
C4_OneSpecPerEntity ==
    \A k \in DOMAIN queries :
        LET q == queries[k]
        IN  /\ Len(q.qSpecs) = Len(q.entities)
            /\ \A i \in DOMAIN q.qSpecs :
                  /\ q.qSpecs[i].entity = q.entities[i]
                  /\ q.qSpecs[i].metricId = q.qSpecs[1].metricId
                  /\ q.qSpecs[i].startTime = q.qSpecs[1].startTime
                  /\ q.qSpecs[i].endTime = q.qSpecs[1].endTime
                  /\ q.qSpecs[i].intervalId = 20

\* C5: a call of colletMetricsForEntities with an empty entity list calls
\* neither QueryPerf nor QueryPerfCounter and dispatches nothing.
C5_EmptyBatchDoesNothing ==
    \A k \in DOMAIN calls :
        Len(calls[k].entities) = 0 =>
            /\ calls[k].queries = 0
            /\ calls[k].lookups = 0
            /\ calls[k].dispatched = 0

\* a tick called it with an empty list, and with a non-empty one that queried
C5_Witness ==
    /\ \E k \in DOMAIN calls : Len(calls[k].entities) = 0 /\ calls[k].queries = 0
    /\ \E k \in DOMAIN calls : Len(calls[k].entities) > 0 /\ calls[k].queries = 1

\* C6: for a host without VMs in a polled cluster, no vm-scope QueryPerf is
\* issued and no vm-scope sample is dispatched for that host, and the
\* host-scope batch of its cluster, built from the host list it is in, is issued.
C6_HostWithoutVMs ==
    \A k \in DOMAIN calls :
        LET c == calls[k]
        IN  (c.scope = "vm" /\ HostVMs(c.parent) = <<>>) =>
               /\ ~\E j \in DOMAIN queries :
                     /\ queries[j].name = c.name
                     /\ queries[j].scope = "vm"
                     /\ queries[j].parent = c.parent
               /\ ~\E j \in DOMAIN dispatched :
                     /\ dispatched[j].name = c.name
                     /\ dispatched[j].scope = "vm"
                     /\ dispatched[j].parent = c.parent
               /\ \E j \in DOMAIN queries :
                     /\ queries[j].name = c.name
                     /\ queries[j].scope = "host"
                     /\ queries[j].cluster = c.cluster
                     /\ c.parent \in Range(queries[j].entities)

\* a tick walked a cluster in which one host has VMs and another has none
C6_Witness ==
    \E k \in DOMAIN calls :
        /\ calls[k].scope = "vm"
        /\ HostVMs(calls[k].parent) = <<>>
        /\ calls[k].queries = 0
        /\ \E j \in DOMAIN queries :
              /\ queries[j].scope = "vm"
              /\ queries[j].cluster = calls[k].cluster
              /\ queries[j].name = calls[k].name

\* C7: every type_instance dispatched to the sink has at most 63 characters.
C7_KeyWithinSinkLimit ==
    \A k \in DOMAIN dispatched : Len(dispatched[k].type_instance) <= 63

\* C8: a failure is forgotten at the next tick: after a tick in which the
\* endpoint of a configuration block is reachable and has a powered-on host
\* and a powered-on VM, that endpoint has been polled.
C8_NextTickRetries ==
    (AfterTick /\ AllNamed) =>
        \A i \in DOMAIN CONFIGS :
            LET c == CONFIGS[i]
            IN  (/\ cp.conn[c.host] = "ok"
                 /\ \E h \in InventoryHosts(c.host) : PoweredOn(cp, h)
                 /\ \E v \in InventoryVMs(c.host) : PoweredOn(cp, v))
                => c.name \in Range(polled)

\* C9: given a successful connection, create_environment returns an
\* environment exactly when the inventory has a powered-on host and a
\* powered-on VM.
C9_EnvironmentIffPoweredOn ==
    AfterInit =>
        \A n \in DOMAIN ENVIRONMENT :
            LET c == ConfigOf(n)
            IN  cp.conn[c.host] = "ok" =>
                   ((ENVIRONMENT[n].kind = "env")
                    <=> (/\ \E h \in InventoryHosts(c.host) : PoweredOn(cp, h)
                         /\ \E v \in InventoryVMs(c.host) : PoweredOn(cp, v)))

\* C10: the time of every dispatched sample is the raw timestamp plus 3600
\* when DST is in effect while the sample is processed, the raw timestamp
\* otherwise.
C10_DSTCorrection ==
    \A k \in DOMAIN dispatched :
        dispatched[k].time =
            IF cp.isdst = 1 THEN dispatched[k].raw + 3600 ELSE dispatched[k].raw

\* samples dispatched in a tick under DST, an hour later than reported
C10_Witness ==
    /\ cp.isdst = 1
    /\ \E k \in DOMAIN dispatched : dispatched[k].time = dispatched[k].raw + 3600

\* the segments of a dispatched key, counted from its end: the unit is the
\* last, before it the counter, the rollup type, the instance and the group
KeySegment(d, fromEnd) ==
    LET segs == Split(d.type_instance, ".")
    IN  segs[Len(segs) - fromEnd]

\* the catalog entry of the counter of a dispatched sample
CounterOf(d) ==
    PerfCounters[CHOOSE k \in 1..Len(PerfCounters) : PerfCounters[k].key = d.id.counterId]

\* C15: in every dispatched key the instance segment is 'all' when the
\* control plane's instance label is empty, the unit segment is 'KBps' when
\* the counter's unit is kiloBytesPerSecond, and the group segment is 'ds'
\* when the counter's group is datastore.
C15_AllKBpsDs ==
    \A k \in DOMAIN dispatched :
        LET d == dispatched[k]
        IN  /\ d.id.instance = <<>> => KeySegment(d, 3) = Str_all
            /\ CounterOf(d).unit = Str_kiloBytesPerSecond =>
                   KeySegment(d, 0) = <<"K","B","p","s">>
            /\ CounterOf(d).group = Str_datastore => KeySegment(d, 4) = <<"d","s">>

\* a tick dispatched a total (empty instance) and a datastore.read sample
C15_Witness ==
    /\ \E k \in DOMAIN dispatched :
          dispatched[k].id.instance = <<>> /\ KeySegment(dispatched[k], 3) = Str_all
    /\ \E k \in DOMAIN dispatched :
          /\ CounterOf(dispatched[k]).group = Str_datastore
          /\ KeySegment(dispatched[k], 0) = <<"K","B","p","s">>
          /\ KeySegment(dispatched[k], 4) = <<"d","s">>

\* the clusters of the datacenters of an endpoint
ClustersOf(e) ==
    {c \in UNION {Range(dc.hostFolder) :
                    dc \in {d \in Range(RootChildren(e)) : d.wsdl = "Datacenter"}} :
        c.wsdl = "ClusterComputeResource"}

\* the QueryPerf invocations of the last tick for one environment and cluster
HostQueries(n, c) ==
    {k \in DOMAIN queries : /\ queries[k].name = n
                            /\ queries[k].cluster = c.name
                            /\ queries[k].scope = "host"}

VMQueries(n, c, h) ==
    {k \in DOMAIN queries : /\ queries[k].name = n
                            /\ queries[k].cluster = c.name
                            /\ queries[k].scope = "vm"
                            /\ queries[k].parent = h}

\* C16: in a tick, for every cluster of every datacenter of an environment
\* the tick walked, QueryPerf is invoked exactly once for the cluster's hosts
\* (not at all when it has none) and exactly once per host of the cluster
\* that has a VM, and the host-scope query precedes the cluster's vm-scope
\* queries.
C16_OneQueryPerScope ==
    AfterTick =>
        \A n \in Range(polled) :
            \A c \in ClustersOf(ENVIRONMENT[n].host) :
                /\ Cardinality(HostQueries(n, c)) = (IF Len(c.host) > 0 THEN 1 ELSE 0)
                /\ \A h \in Range(c.host) :
                      /\ Cardinality(VMQueries(n, c, h)) =
                            (IF Len(HostVMs(h)) > 0 THEN 1 ELSE 0)
                      /\ \A kv \in VMQueries(n, c, h) :
                            \A kh \in HostQueries(n, c) : kh < kv

\* a tick walked a cluster with hosts and VMs and a cluster without hosts
C16_Witness ==
    /\ AfterTick
    /\ \E n \in Range(polled) :
          \E c \in ClustersOf(ENVIRONMENT[n].host) :
              \E h \in Range(c.host) :
                  HostQueries(n, c) # {} /\ VMQueries(n, c, h) # {}
    /\ \E n \in Range(polled) :
          \E c \in ClustersOf(ENVIRONMENT[n].host) :
              Len(c.host) = 0 /\ HostQueries(n, c) = {}

\* C17: read_callback leaves the environment cache as it is: a tick changes
\* neither the keys of ENVIRONMENT nor any entry (credentials,
\* host_counter_ids, vm_counter_ids); only init_callback assigns entries.
C17_ReadLeavesCacheUnchanged ==
    [][tick' # tick => ENVIRONMENT' = ENVIRONMENT]_vars

\* two ticks have run on a cache with an environment and a failed entry
C17_Witness ==
    /\ tick >= 2
    /\ BuiltNames # {}
    /\ BuiltNames # DOMAIN ENVIRONMENT

\* no element occurs twice in a list
NoDuplicates(list) ==
    \A i, j \in DOMAIN list : list[i] = list[j] => i = j

\* C18: the host and VM allow-lists of every environment are sets: no
\* (counter id, instance) descriptor occurs twice, also when the control
\* plane offers it at both sampling periods.
C18_AllowListsAreSets ==
    \A n \in BuiltNames :
        /\ NoDuplicates(ENVIRONMENT[n].host_counter_ids)
        /\ NoDuplicates(ENVIRONMENT[n].vm_counter_ids)

\* C19: after init_callback has run to its end, ENVIRONMENT holds one entry
\* per configuration block received, also when two blocks share a name or a
\* block omits its name.
C19_OneEntryPerBlock ==
    (AfterInit /\ ~aborted) => Cardinality(DOMAIN ENVIRONMENT) = Len(CONFIGS)

\* C20: within a tick all samples of one metric of one batch (same
\* environment, scope, batch, entity, counter and instance) are dispatched
\* under the same key.
C20_OneKeyPerMetric ==
    \A k, j \in DOMAIN dispatched :
        (/\ dispatched[k].name = dispatched[j].name
         /\ dispatched[k].scope = dispatched[j].scope
         /\ dispatched[k].parent = dispatched[j].parent
         /\ dispatched[k].entity = dispatched[j].entity
         /\ dispatched[k].id = dispatched[j].id)
            => dispatched[k].type_instance = dispatched[j].type_instance

\* C21: connections are stateless per cycle: every session init_callback
\* (through create_environment) or read_callback opened is closed when the
\* callback returns, so no callback leaves a session open and the number of
\* open sessions does not grow with the ticks.
C21_SessionsClosed == leakedSessions = 0

(***************************************************************************)
(* Properties of truncate, under TruncateSpec.                             *)
(***************************************************************************)
\* calls of truncate that have returned, their argument and result
CompleteCalls == {c \in DOMAIN strTrace : Len(strTrace[c]) = RuleCount + 1}
Argument(c) == strTrace[c][1]
Returned(c) == strTrace[c][RuleCount + 1]

\* C11 as stated: truncate('naa.6000c29012345678deadbeefcafef00d') returns
\* 'naaefcafef00d'.
C11_ReturnsNaaLast10 ==
    \A c \in CompleteCalls :
        Argument(c) = Str_C11dev =>
            Returned(c) = <<"n","a","a","e","f","c","a","f","e","f","0","0","d">>

\* C11 amended: truncate('naa.6000c29012345678deadbeefcafef00d') returns
\* 'naabeefcafef00d', the id type followed by the last 12 characters of the
\* identifier.
C11_ReturnsNaaLast12 ==
    \A c \in CompleteCalls :
        Argument(c) = Str_C11dev =>
            Returned(c) = <<"n","a","a","b","e","e","f","c","a","f","e","f","0","0","d">>

C11_Witness == \E c \in CompleteCalls : Argument(c) = Str_C11dev

\* C12: the device-identifier rule is idempotent: for a naa./t10. input the
\* value the rule assigns no longer matches the naa./t10. pattern, and the
\* rule leaves it alone when truncate is called on it again.
C12_DeviceRuleIdempotent ==
    \A c \in DOMAIN strTrace :
        (Len(strTrace[c]) >= 2 /\ MatchesDevice(strTrace[c][1])) =>
            /\ ~MatchesDevice(strTrace[c][2])
            /\ (c + 1 \in DOMAIN strTrace /\ Len(strTrace[c + 1]) >= 2
                 /\ strTrace[c + 1][1] = strTrace[c][2])
                    => strTrace[c + 1][2] = strTrace[c + 1][1]

\* the identifier of a device name: what follows 'naa.' or 't10.'
Identifier(s) == SubSeq(s, 5, Len(s))

\* the first two underscore-delimited groups that follow ATA
ATAGroups(identifier) ==
    LET groups == SelectSeq(Split(SubSeq(identifier, 4, Len(identifier)), "_"),
                            LAMBDA g : g # <<>>)
    IN  groups[1] \o groups[2]

\* C13: for a naa./t10. input whose identifier begins with ATA, truncate
\* returns the concatenation of the two underscore-delimited groups that
\* follow ATA (in whatever case), not the last-12-characters form.
C13_ATAModelAndSerial ==
    \A c \in CompleteCalls :
        (MatchesDevice(Argument(c)) /\ StartsWith(Identifier(Argument(c)), Str_ATA)) =>
            Lower(Returned(c)) = Lower(ATAGroups(Identifier(Argument(c))))

\* the vCloud Director pattern matches s
MatchesVCloud(s) == \E p \in 1..(Len(s) - 38) : VCloudAt(s, p)

\* C14: the rules are independent: when the device rule or the vCloud rule
\* matched in a call, the later rules for other identifier families (VMFS
\* UUID shortening, vocabulary substitution) do not change the string again.
C14_RulesIndependent ==
    \A c \in CompleteCalls :
        (MatchesDevice(strTrace[c][1]) \/ MatchesVCloud(strTrace[c][2])) =>
            strTrace[c][RuleCount + 1] = strTrace[c][3]

====
